---- MODULE Spec2Model ----
(***************************************************************************)
(* Model of youtube_transcript_downloader.py: the channel resolver         *)
(* (get_channel_id), the paginating video enumerator (get_video_info), the *)
(* per-video transcript fetcher (parse_video, run in executor threads by   *)
(* the @background decorator) and the orchestrator (run).                  *)
(*                                                                         *)
(* Python strings are sequences of one-character strings, so that          *)
(* str.replace, slicing and os.path.join are computed, not assumed.        *)
(* None is the string "None" where the other values are strings, and the   *)
(* empty sequence where the other values are sequences.                    *)
(***************************************************************************)
EXTENDS Integers, Sequences, FiniteSets, TLC

VARIABLES
    uploads,          \* platform: channel id -> pages of playlist items
    transcripts,      \* platform: video id -> transcript lines (texts)
    fs,               \* file system: path -> file content, for existing files
    dirs,             \* file system: the directories that exist
    yt_channels,      \* run: the channel names supplied
    run_pc,           \* run: position of the main thread
    k,                \* run: index of the next name to resolve (line 203)
    yt_id_name,       \* run: dict channel id -> name, in insertion order
    ci,               \* run: index of the dict item being processed (line 206)
    channel_id,       \* get_video_info: argument
    max_results,      \* get_video_info: argument
    enum_pc,          \* get_video_info: position
    uploads_playlist_id, \* get_video_info: local (the playlist, by its owner)
    video_info,       \* get_video_info: local, the list being built
    next_page_token,  \* get_video_info: local
    requests,         \* page tokens sent to the playlist API, in order
    tasks,            \* the parse_video invocations of the current batch
    round,            \* sequential re-run scenario: 1 or 2 (0 elsewhere)
    prev              \* sequential re-run scenario: the first invocation, as it ended

vars == <<uploads, transcripts, fs, dirs, yt_channels, run_pc, k, yt_id_name, ci,
          channel_id, max_results, enum_pc, uploads_playlist_id, video_info,
          next_page_token, requests, tasks, round, prev>>

platformVars == <<uploads, transcripts>>
runVars == <<yt_channels, run_pc, k, yt_id_name, ci>>
enumVars == <<channel_id, max_results, enum_pc, uploads_playlist_id, video_info,
              next_page_token, requests>>
rerunVars == <<round, prev>>

(***************************************************************************)
(* Bounds of the model.                                                    *)
(***************************************************************************)
MaxChannels == 2     \* channel names supplied to run
MaxPages == 4        \* pages of a playlist (enumerator scenario)
MaxPageItems == 2    \* items on one page (enumerator scenario)
MaxCap == 7          \* largest max_results tried (enumerator scenario)
MaxLines == 2        \* lines of a transcript (re-run and naming scenarios)
MaxTitleLen == 3     \* characters of a generated title (naming scenario)

(***************************************************************************)
(* Program constants.                                                      *)
(***************************************************************************)
DefaultMaxResults == 500000
strlen == 10

None == "None"
NoToken == <<>>

(***************************************************************************)
(* String helpers: str.replace on single characters, slicing, join.        *)
(***************************************************************************)
Replace(s, old, new) == [i \in 1..Len(s) |-> IF s[i] = old THEN new ELSE s[i]]

Prefix(s, n) == SubSeq(s, 1, IF Len(s) < n THEN Len(s) ELSE n)

\* posixpath.join(a, b)
PathJoin(a, b) ==
    IF Len(b) > 0 /\ b[1] = "/" THEN b
    ELSE IF Len(a) = 0 \/ a[Len(a)] = "/" THEN a \o b
    ELSE a \o <<"/">> \o b

\* VideoTitle as it would be if only the spaces of the title were replaced
VideoTitleKeepsSlash(video) ==
    LET video_title == Replace(video.title, " ", "_")
        published_at == Prefix(Replace(Replace(video.publishedAt, ":", "-"), ".", "-"), strlen)
    IN  published_at \o <<"_">> \o video_title

\* lines 113-116: the file name stem built from the title and the date
VideoTitle(video) ==
    LET video_title == Replace(Replace(video.title, " ", "_"), "/", "_")
        published_at == Prefix(Replace(Replace(video.publishedAt, ":", "-"), ".", "-"), strlen)
    IN  published_at \o <<"_">> \o video_title

\* line 119
FilePath(video, dir_path) ==
    PathJoin(dir_path, VideoTitle(video) \o <<".","t","x","t">>)

\* lines 80-86: the descriptor built from one playlist item
Descriptor(item) ==
    [url |-> <<"https://www.youtube.com/watch?v=", item.videoId>>,
     id |-> item.videoId,
     title |-> item.title,
     publishedAt |-> item.publishedAt]

RECURSIVE Descriptors(_)
Descriptors(items) ==
    IF items = <<>> THEN <<>>
    ELSE <<Descriptor(Head(items))>> \o Descriptors(Tail(items))

RECURSIVE Flatten(_)
Flatten(pages) ==
    IF pages = <<>> THEN <<>> ELSE Head(pages) \o Flatten(Tail(pages))

(***************************************************************************)
(* The platform, as the program sees it through its three API clients.     *)
(***************************************************************************)
NameA == <<"a">>
NameB == <<"b">>
NameC == <<"c">>
NameX == <<"x">>
Names == {NameA, NameB, NameC, NameX}
ChannelIds == {"c1", "c2"}

\* The channel-search API (lines 171-183): the best match of a name, or no
\* item. Two names lead to channel c1; nothing matches name x.
SearchItems(name) ==
    CASE name = NameA -> <<"c1">>
      [] name = NameB -> <<"c2">>
      [] name = NameC -> <<"c1">>
      [] OTHER -> <<>>

\* The playlist API (lines 69-77, 88): the page a token stands for, and the
\* token of the page after it; the last page carries no token.
PlaylistResponse(playlistId, pageToken) ==
    LET pages == uploads[playlistId]
        n == IF pageToken = NoToken THEN 1 ELSE pageToken[1]
    IN  [items |-> pages[n],
         nextPageToken |-> IF n < Len(pages) THEN <<n + 1>> ELSE NoToken]

Date1 == <<"2","0","2","3","-","0","4","-","0","5","T","1","2",":","0","0",":","0","0",".","0","0","0","Z">>
Date1Later == <<"2","0","2","3","-","0","4","-","0","5","T","1","3",":","3","0",":","0","0",".","0","0","0","Z">>
Date2 == <<"2","0","2","3","-","0","4","-","0","6","T","0","9",":","1","5",":","0","0",".","0","0","0","Z">>

ItemA == [videoId |-> "v1", title |-> <<"A"," ","B">>, publishedAt |-> Date1]
ItemB == [videoId |-> "v2", title |-> <<"A","/","B">>, publishedAt |-> Date1Later]
ItemC == [videoId |-> "v3", title |-> <<"M","y"," ","V","i","d","e","o">>, publishedAt |-> Date2]
ItemD == [videoId |-> "v4", title |-> <<"D">>, publishedAt |-> Date2]
ItemE == [videoId |-> "v5", title |-> <<"E">>, publishedAt |-> Date1]

\* The uploads of the two channels in the orchestrator scenario.
MainUploads ==
    [c \in ChannelIds |->
        IF c = "c1" THEN << <<ItemA, ItemB>>, <<ItemC>> >>
                    ELSE << <<ItemD>>, <<ItemE>> >>]

LineHi == <<"h","i">>
LineYo == <<"y","o">>
LineTexts == {LineHi, LineYo}

MainTranscripts ==
    [v \in {"v1", "v2", "v3", "v4", "v5"} |->
        CASE v = "v1" -> <<LineHi, LineYo>>
          [] v = "v2" -> <<LineYo>>
          [] v = "v3" -> <<LineHi>>
          [] v = "v5" -> <<>>
          [] OTHER -> <<LineYo, LineHi>>]

\* What YouTubeTranscriptApi.get_transcript can do (lines 130-142): return
\* the transcript, or raise one of the two typed errors or any other error.
FetchOutcomes == {"ok", "TranscriptsDisabled", "NoTranscriptFound", "Exception"}

(***************************************************************************)
(* The file system.                                                        *)
(***************************************************************************)
EmptyFs == <<>>

\* Exists as it would be if the existence test never found the file
ExistsNever(f, path) == FALSE

Exists(f, path) == path \in DOMAIN f

FsPut(f, path, content) ==
    [p \in (DOMAIN f) \cup {path} |-> IF p = path THEN content ELSE f[p]]

\* open(file_path, 'w'): creates the file, or truncates the one there
OpenW(f, path) == FsPut(f, path, <<>>)

\* Closing a handle opened with 'w' writes its buffer from offset 0, over
\* what the file holds by then (the transcripts are far below the buffer
\* size, so nothing reaches the file before the close).
Flush(f, path, buf) ==
    LET old == IF Exists(f, path) THEN f[path] ELSE <<>>
    IN  FsPut(f, path, buf \o SubSeq(old, Len(buf) + 1, Len(old)))

DataDir == <<"d","a","t","a">>

\* line 217
ChannelDir(channel_name) == DataDir \o <<"/">> \o channel_name

(***************************************************************************)
(* get_video_info (lines 41-92).                                           *)
(***************************************************************************)

\* PageToken as it would be if the loop never passed the token on
PageTokenNeverPassed(token) == NoToken

\* line 73: the token the next page request carries
PageToken(token) == token

\* LoopBreak as it would be without the max_results test
LoopBreakOnTokenOnly(token, count, maxResults) == token = NoToken

\* line 90: the loop's exit test, after a page was appended
LoopBreak(token, count, maxResults) == token = NoToken \/ count >= maxResults

\* An error raised inside get_video_info is not caught there, nor in run
\* (lines 206-209): it ends run when run made the call.
Propagate(pc) == IF pc = "enumerating" THEN "aborted" ELSE pc

\* lines 53-66: the channel lookup answers with the uploads playlist
LookupOk ==
    /\ enum_pc = "lookup"
    /\ channel_id \in DOMAIN uploads
    /\ uploads_playlist_id' = channel_id
    /\ video_info' = <<>>
    /\ next_page_token' = NoToken
    /\ enum_pc' = "page"
    /\ UNCHANGED <<platformVars, fs, dirs, runVars, channel_id, max_results,
                   requests, tasks, rerunVars>>

\* lines 61-62: the lookup request fails, or its answer holds no channel
\* (as for the absent identifier): the error propagates
LookupFail ==
    /\ enum_pc = "lookup"
    /\ enum_pc' = "raised"
    /\ run_pc' = Propagate(run_pc)
    /\ UNCHANGED <<platformVars, fs, dirs, yt_channels, k, yt_id_name, ci,
                   channel_id, max_results, uploads_playlist_id, video_info,
                   next_page_token, requests, tasks, rerunVars>>

\* lines 68-91: one turn of the loop, from the page request to the exit test
PageOk ==
    /\ enum_pc = "page"
    /\ LET sent == PageToken(next_page_token)
           playlist_response == PlaylistResponse(uploads_playlist_id, sent)
           grown == video_info \o Descriptors(playlist_response.items)
       IN  /\ requests' = Append(requests, sent)
           /\ video_info' = grown
           /\ next_page_token' = playlist_response.nextPageToken
           /\ enum_pc' = IF LoopBreak(playlist_response.nextPageToken,
                                      Len(grown), max_results)
                         THEN "returned" ELSE "page"
    /\ UNCHANGED <<platformVars, fs, dirs, runVars, channel_id, max_results,
                   uploads_playlist_id, tasks, rerunVars>>

\* PageFail as it would be if a failed page request ended the loop and the
\* list built so far were returned
PageFailReturnsPartial ==
    /\ enum_pc = "page"
    /\ requests' = Append(requests, PageToken(next_page_token))
    /\ enum_pc' = "returned"
    /\ UNCHANGED <<platformVars, fs, dirs, runVars, channel_id, max_results,
                   uploads_playlist_id, video_info, next_page_token, tasks,
                   rerunVars>>

\* line 76: the page request fails; the list built so far is lost with the frame
PageFail ==
    /\ enum_pc = "page"
    /\ requests' = Append(requests, PageToken(next_page_token))
    /\ enum_pc' = "raised"
    /\ run_pc' = Propagate(run_pc)
    /\ UNCHANGED <<platformVars, fs, dirs, yt_channels, k, yt_id_name, ci,
                   channel_id, max_results, uploads_playlist_id, video_info,
                   next_page_token, tasks, rerunVars>>

(***************************************************************************)
(* parse_video (lines 95-152), one invocation per task.                    *)
(***************************************************************************)
NewTask(video, dir_path) ==
    [video_info |-> video, dir_path |-> dir_path, pc |-> "check",
     fetches |-> <<>>, transcript |-> <<>>, opened |-> FALSE,
     written |-> 0, buf |-> <<>>]

TaskPath(t) == FilePath(t.video_info, t.dir_path)

\* FirstFetchHandler as it would be if every error of the first fetch were retried
FirstFetchHandlerRetriesAll(exc) == "fetch2"

\* FirstFetchHandler as it would be if TranscriptsDisabled fell through to the write
FirstFetchHandlerDisabledFallsThrough(exc) ==
    CASE exc = "TranscriptsDisabled" -> "open"
      [] exc = "NoTranscriptFound" -> "fetch2"
      [] OTHER -> "returned"

\* lines 131-142: the except clauses of the first fetch; the place the
\* invocation goes to
FirstFetchHandler(exc) ==
    CASE exc = "TranscriptsDisabled" -> "returned"
      [] exc = "NoTranscriptFound" -> "fetch2"
      [] OTHER -> "returned"

\* lines 137-139: the except clause of the second fetch
SecondFetchHandler(exc) == "returned"

\* OuterHandler as it would be without the outer except clause
OuterHandlerMissing(exc) == "raised"

\* lines 151-152: the outer except clause, for all that the inner ones let pass
OuterHandler(exc) == "returned"

\* CheckExists as it would be without the skip of lines 121-123
CheckExistsNeverSkips(i) ==
    /\ tasks[i].pc = "check"
    /\ tasks' = [tasks EXCEPT ![i].pc = "fetch1"]
    /\ UNCHANGED <<platformVars, fs, dirs, runVars, enumVars, rerunVars>>

\* lines 109-123: derive the path, skip when the file is there
CheckExists(i) ==
    /\ tasks[i].pc = "check"
    /\ tasks' = [tasks EXCEPT ![i].pc =
                    IF Exists(fs, TaskPath(tasks[i])) THEN "returned" ELSE "fetch1"]
    /\ UNCHANGED <<platformVars, fs, dirs, runVars, enumVars, rerunVars>>

\* lines 128-142: the first fetch and its except clauses
Fetch1(i) ==
    /\ tasks[i].pc = "fetch1"
    /\ \E out \in FetchOutcomes :
          tasks' = [tasks EXCEPT
              ![i].fetches = Append(@, out),
              ![i].transcript = IF out = "ok" THEN transcripts[tasks[i].video_info.id] ELSE @,
              ![i].pc = IF out = "ok" THEN "open" ELSE FirstFetchHandler(out)]
    /\ UNCHANGED <<platformVars, fs, dirs, runVars, enumVars, rerunVars>>

\* lines 135-139: the second fetch, after NoTranscriptFound
Fetch2(i) ==
    /\ tasks[i].pc = "fetch2"
    /\ \E out \in FetchOutcomes :
          tasks' = [tasks EXCEPT
              ![i].fetches = Append(@, out),
              ![i].transcript = IF out = "ok" THEN transcripts[tasks[i].video_info.id] ELSE @,
              ![i].pc = IF out = "ok" THEN "open" ELSE SecondFetchHandler(out)]
    /\ UNCHANGED <<platformVars, fs, dirs, runVars, enumVars, rerunVars>>

\* line 145: open(file_path, 'w') creates or truncates the file
OpenOk(i) ==
    /\ tasks[i].pc = "open"
    /\ fs' = OpenW(fs, TaskPath(tasks[i]))
    /\ tasks' = [tasks EXCEPT ![i].opened = TRUE, ![i].pc = "write"]
    /\ UNCHANGED <<platformVars, dirs, runVars, enumVars, rerunVars>>

\* line 145: open raises (OSError); lines 151-152 handle it
OpenFail(i) ==
    /\ tasks[i].pc = "open"
    /\ tasks' = [tasks EXCEPT ![i].pc = OuterHandler("OSError")]
    /\ UNCHANGED <<platformVars, fs, dirs, runVars, enumVars, rerunVars>>

\* lines 146-147: one line's text and a space go to the handle
WriteLine(i) ==
    /\ tasks[i].pc = "write"
    /\ tasks[i].written < Len(tasks[i].transcript)
    /\ tasks' = [tasks EXCEPT
          ![i].buf = @ \o tasks[i].transcript[tasks[i].written + 1] \o <<" ">>,
          ![i].written = @ + 1]
    /\ UNCHANGED <<platformVars, fs, dirs, runVars, enumVars, rerunVars>>

\* lines 146-147: a write raises; the with statement closes the handle, which
\* writes what was buffered, and lines 151-152 handle the error
WriteFail(i) ==
    /\ tasks[i].pc = "write"
    /\ tasks[i].written < Len(tasks[i].transcript)
    /\ fs' = Flush(fs, TaskPath(tasks[i]), tasks[i].buf)
    /\ tasks' = [tasks EXCEPT ![i].pc = OuterHandler("Exception")]
    /\ UNCHANGED <<platformVars, dirs, runVars, enumVars, rerunVars>>

\* lines 145-149: the loop is over, the with statement closes the handle
CloseFile(i) ==
    /\ tasks[i].pc = "write"
    /\ tasks[i].written = Len(tasks[i].transcript)
    /\ fs' = Flush(fs, TaskPath(tasks[i]), tasks[i].buf)
    /\ tasks' = [tasks EXCEPT ![i].pc = "returned"]
    /\ UNCHANGED <<platformVars, dirs, runVars, enumVars, rerunVars>>

TaskStep ==
    \E i \in DOMAIN tasks :
        \/ CheckExists(i)
        \/ Fetch1(i)
        \/ Fetch2(i)
        \/ OpenOk(i)
        \/ OpenFail(i)
        \/ WriteLine(i)
        \/ WriteFail(i)
        \/ CloseFile(i)

(***************************************************************************)
(* get_channel_id (lines 155-189) and run (lines 192-226).                 *)
(***************************************************************************)

\* lines 183-189
GetChannelId(channel_name) ==
    LET items == SearchItems(channel_name)
    IN  IF items # <<>> THEN items[1] ELSE None

\* DictPut as it would be if every supplied name got an item of its own
DictPutAppendAlways(d, key, value) == Append(d, [id |-> key, name |-> value])

\* d[key] = value on a Python dict, kept as its items in insertion order: a
\* key already there keeps its place and takes the new value
DictPut(d, key, value) ==
    IF \E j \in 1..Len(d) : d[j].id = key
    THEN [j \in 1..Len(d) |-> IF d[j].id = key THEN [id |-> key, name |-> value] ELSE d[j]]
    ELSE Append(d, [id |-> key, name |-> value])

\* GatherDone as it would be if the wait ended with the first result
GatherFirstCompleted(ts) == \E i \in DOMAIN ts : ts[i].pc = "returned"

\* line 226: asyncio.gather without return_exceptions ends when every future
\* has a result ...
GatherDone(ts) == \A i \in DOMAIN ts : ts[i].pc = "returned"

\* ... or as soon as one of them holds an exception, which it raises
GatherRaised(ts) == \E i \in DOMAIN ts : ts[i].pc = "raised"

\* line 203: one step of the dict comprehension
ResolveOk ==
    /\ run_pc = "resolve"
    /\ yt_id_name' = DictPut(yt_id_name, GetChannelId(yt_channels[k]), yt_channels[k])
    /\ k' = k + 1
    /\ run_pc' = IF k = Len(yt_channels) THEN "loop" ELSE "resolve"
    /\ UNCHANGED <<platformVars, fs, dirs, yt_channels, ci, enumVars, tasks, rerunVars>>

\* line 180: the search request fails; nothing in run catches it
ResolveFail ==
    /\ run_pc = "resolve"
    /\ run_pc' = "aborted"
    /\ UNCHANGED <<platformVars, fs, dirs, yt_channels, k, yt_id_name, ci,
                   enumVars, tasks, rerunVars>>

\* The invocations still running in the executor's threads; one that has
\* ended leaves nothing behind but its effect on the files.
Running(ts) == SelectSeq(ts, LAMBDA t : t.pc \notin {"returned", "raised"})

\* lines 206-209: the next item of the dict, and the call of get_video_info
\* with the default max_results; after the last item run returns
NextChannel ==
    /\ run_pc = "loop"
    /\ IF ci <= Len(yt_id_name)
       THEN /\ run_pc' = "enumerating"
            /\ channel_id' = yt_id_name[ci].id
            /\ max_results' = DefaultMaxResults
            /\ enum_pc' = "lookup"
            /\ requests' = <<>>
       ELSE /\ run_pc' = "done"
            /\ UNCHANGED <<channel_id, max_results, enum_pc, requests>>
    /\ tasks' = Running(tasks)
    /\ UNCHANGED <<platformVars, fs, dirs, yt_channels, k, yt_id_name, ci,
                   uploads_playlist_id, video_info, next_page_token, rerunVars>>

\* lines 211-226: the directories, then one executor task per descriptor
LaunchBatch ==
    /\ run_pc = "enumerating"
    /\ enum_pc = "returned"
    /\ LET dir_path == ChannelDir(yt_id_name[ci].name)
       IN  /\ dirs' = dirs \cup {DataDir, dir_path}
           /\ tasks' = [i \in 1..Len(video_info) |-> NewTask(video_info[i], dir_path)]
    /\ run_pc' = "gather"
    /\ enum_pc' = "idle"
    /\ UNCHANGED <<platformVars, fs, yt_channels, k, yt_id_name, ci, channel_id,
                   max_results, uploads_playlist_id, video_info, next_page_token,
                   requests, rerunVars>>

\* line 226: run_until_complete(gather(...)) returns, or raises what a task raised
Join ==
    /\ run_pc = "gather"
    /\ GatherRaised(tasks) \/ GatherDone(tasks)
    /\ run_pc' = IF GatherRaised(tasks) THEN "aborted" ELSE "loop"
    /\ ci' = IF GatherRaised(tasks) THEN ci ELSE ci + 1
    /\ UNCHANGED <<platformVars, fs, dirs, yt_channels, k, yt_id_name, enumVars,
                   tasks, rerunVars>>

(***************************************************************************)
(* The orchestrator scenario: run(api_key, yt_channels).                   *)
(***************************************************************************)
SeqsUpTo(S, n) == UNION {[1..m -> S] : m \in 1..n}

OldContent == <<"o","l","d">>

\* A run starts on the output tree an earlier run left: channel a's
\* directory with the file of one of its videos; the other directories are
\* not there yet.
InitialFs == FsPut(EmptyFs, FilePath(Descriptor(ItemC), ChannelDir(NameA)), OldContent)
InitialDirs == {DataDir, ChannelDir(NameA)}

Init ==
    /\ uploads = MainUploads
    /\ transcripts = MainTranscripts
    /\ fs = InitialFs
    /\ dirs = InitialDirs
    /\ yt_channels \in SeqsUpTo(Names, MaxChannels)
    /\ run_pc = "resolve"
    /\ k = 1
    /\ yt_id_name = <<>>
    /\ ci = 1
    /\ channel_id = None
    /\ max_results = DefaultMaxResults
    /\ enum_pc = "idle"
    /\ uploads_playlist_id = None
    /\ video_info = <<>>
    /\ next_page_token = NoToken
    /\ requests = <<>>
    /\ tasks = <<>>
    /\ round = 0
    /\ prev = <<>>

Next ==
    \/ ResolveOk
    \/ ResolveFail
    \/ NextChannel
    \/ LookupOk
    \/ LookupFail
    \/ PageOk
    \/ PageFail
    \/ LaunchBatch
    \/ TaskStep
    \/ Join

Spec == Init /\ [][Next]_vars

(***************************************************************************)
(* The enumerator scenario: get_video_info(api_key, "c1", max_results) on  *)
(* its own, for every playlist within the bounds and every max_results.    *)
(***************************************************************************)

\* The j-th item of page p of a generated playlist; every item is another video.
GenItem(p, j) ==
    [videoId |-> <<"v", p, j>>, title |-> <<"T">>, publishedAt |-> Date1]

\* The playlist whose pages have the given sizes.
GenPlaylist(sizes) ==
    [p \in 1..Len(sizes) |-> [j \in 1..sizes[p] |-> GenItem(p, j)]]

BoundedPlaylists == {GenPlaylist(sizes) : sizes \in SeqsUpTo(0..MaxPageItems, MaxPages)}

InitEnum ==
    /\ \E pages \in BoundedPlaylists : uploads = [c \in {"c1"} |-> pages]
    /\ transcripts = <<>>
    /\ fs = EmptyFs
    /\ dirs = {}
    /\ yt_channels = <<>>
    /\ run_pc = "standalone"
    /\ k = 1
    /\ yt_id_name = <<>>
    /\ ci = 1
    /\ channel_id = "c1"
    /\ max_results \in 0..MaxCap
    /\ enum_pc = "lookup"
    /\ uploads_playlist_id = None
    /\ video_info = <<>>
    /\ next_page_token = NoToken
    /\ requests = <<>>
    /\ tasks = <<>>
    /\ round = 0
    /\ prev = <<>>

NextEnum ==
    \/ LookupOk
    \/ LookupFail
    \/ PageOk
    \/ PageFail

SpecEnum == InitEnum /\ [][NextEnum]_vars

(***************************************************************************)
(* The re-run scenario: parse_video(video_info, dir_path) twice in         *)
(* sequence, the second invocation starting when the first has ended.      *)
(***************************************************************************)
BoundedTranscripts == {<<>>} \cup SeqsUpTo(LineTexts, MaxLines)

RerunVideos == {Descriptor(ItemA), Descriptor(ItemC)}

InitTwice ==
    /\ uploads = MainUploads
    /\ \E video \in RerunVideos :
          /\ tasks = <<NewTask(video, ChannelDir(NameA))>>
          /\ \E lines \in BoundedTranscripts : transcripts = [v \in {video.id} |-> lines]
    /\ fs \in {EmptyFs, InitialFs}
    /\ dirs = InitialDirs
    /\ yt_channels = <<>>
    /\ run_pc = "standalone"
    /\ k = 1
    /\ yt_id_name = <<>>
    /\ ci = 1
    /\ channel_id = None
    /\ max_results = DefaultMaxResults
    /\ enum_pc = "idle"
    /\ uploads_playlist_id = None
    /\ video_info = <<>>
    /\ next_page_token = NoToken
    /\ requests = <<>>
    /\ round = 1
    /\ prev = <<>>

\* The first invocation has ended: the same call is made again. What the
\* first one did, and the files it left, are kept for comparison.
CallAgain ==
    /\ round = 1
    /\ tasks[1].pc \in {"returned", "raised"}
    /\ round' = 2
    /\ prev' = [task |-> tasks[1], fs |-> fs]
    /\ tasks' = <<NewTask(tasks[1].video_info, tasks[1].dir_path)>>
    /\ UNCHANGED <<platformVars, fs, dirs, runVars, enumVars>>

NextTwice ==
    \/ TaskStep
    \/ CallAgain

SpecTwice == InitTwice /\ [][NextTwice]_vars

(***************************************************************************)
(* The naming scenario: one parse_video invocation on a descriptor whose   *)
(* title is any short string over a letter, the space and the slash, or    *)
(* the title "A/B Test".                                                   *)
(***************************************************************************)
TitleChars == {"A", " ", "/"}

TitleABTest == <<"A","/","B"," ","T","e","s","t">>

BoundedTitles == {<<>>, TitleABTest} \cup SeqsUpTo(TitleChars, MaxTitleLen)

TitledVideo(title) ==
    Descriptor([videoId |-> "v1", title |-> title, publishedAt |-> Date1])

InitPath ==
    /\ uploads = MainUploads
    /\ \E title \in BoundedTitles :
          tasks = <<NewTask(TitledVideo(title), ChannelDir(NameA))>>
    /\ \E lines \in BoundedTranscripts : transcripts = [v \in {"v1"} |-> lines]
    /\ fs = EmptyFs
    /\ dirs = InitialDirs
    /\ yt_channels = <<>>
    /\ run_pc = "standalone"
    /\ k = 1
    /\ yt_id_name = <<>>
    /\ ci = 1
    /\ channel_id = None
    /\ max_results = DefaultMaxResults
    /\ enum_pc = "idle"
    /\ uploads_playlist_id = None
    /\ video_info = <<>>
    /\ next_page_token = NoToken
    /\ requests = <<>>
    /\ round = 0
    /\ prev = <<>>

NextPath == TaskStep

SpecPath == InitPath /\ [][NextPath]_vars

(***************************************************************************)
(* Properties.                                                             *)
(***************************************************************************)
Last(s) == s[Len(s)]

Ended(t) == t.pc \in {"returned", "raised"}

\* What lines 146-147 write for a transcript: each text followed by a space.
RECURSIVE Written(_)
Written(lines) ==
    IF lines = <<>> THEN <<>> ELSE Head(lines) \o <<" ">> \o Written(Tail(lines))

\* C1: parse_video never raises past its own boundary: whatever the fetch
\* does (success, TranscriptsDisabled, NoTranscriptFound once or twice, any
\* other error) and whether the open and the writes succeed or fail, no
\* invocation ends with an exception, and an invocation whose fetch failed
\* for good has returned.
C1_NeverRaises ==
    \A i \in DOMAIN tasks :
        LET t == tasks[i]
        IN  /\ t.pc # "raised"
            /\ (/\ t.fetches # <<>>
                /\ Last(t.fetches) # "ok"
                /\ t.fetches # <<"NoTranscriptFound">>) => t.pc = "returned"
            /\ run_pc = "aborted" => enum_pc = "raised" \/ k <= Len(yt_channels)

\* C1 witness: an invocation whose fetch succeeded and whose open failed, or
\* whose write failed half way, has returned; so has one whose fetch raised
\* an unexpected error.
C1_Witness ==
    /\ \E i \in DOMAIN tasks :
          /\ tasks[i].pc = "returned"
          /\ tasks[i].fetches = <<"ok">>
          /\ tasks[i].written < Len(tasks[i].transcript)
    /\ \E i \in DOMAIN tasks :
          tasks[i].pc = "returned" /\ tasks[i].fetches = <<"Exception">>

TwicePath == TaskPath(tasks[1])

\* C2 as stated: after parse_video ran twice in sequence for the same
\* descriptor and directory, there is exactly one file at the target path and
\* the second run made no fetch call.
C2_IdempotentAsStated ==
    (round = 2 /\ tasks[1].pc = "returned") =>
        /\ Exists(fs, TwicePath)
        /\ tasks[1].fetches = <<>>

\* C2 as amended: two runs in sequence leave at most one file, at the target
\* path. If a file is at the target path when the first run ends, the second
\* run makes no fetch call and changes no file. The first run ends without a
\* file there exactly when the file was absent and the run never opened it
\* (its fetch failed, or the open did), and then the second run fetches again.
C2_IdempotentWhenFileLeft ==
    round = 2 =>
        /\ Exists(prev.fs, TwicePath) =>
              /\ tasks[1].fetches = <<>>
              /\ tasks[1].pc \in {"check", "returned"}
              /\ fs = prev.fs
        /\ prev.task.opened => Exists(prev.fs, TwicePath)
        /\ (prev.task.fetches # <<>> /\ ~prev.task.opened) => ~Exists(prev.fs, TwicePath)
        /\ (~Exists(prev.fs, TwicePath) /\ tasks[1].pc = "returned") => tasks[1].fetches # <<>>
        /\ DOMAIN fs \subseteq (DOMAIN prev.fs) \cup {TwicePath}
        /\ DOMAIN prev.fs \subseteq (DOMAIN InitialFs) \cup {TwicePath}

\* C2 witness: the first run fetched and wrote the file, the second run has
\* returned without any fetch.
C2_Witness ==
    /\ round = 2
    /\ tasks[1].pc = "returned"
    /\ prev.task.fetches # <<>>
    /\ prev.task.opened
    /\ prev.task.written = Len(prev.task.transcript)
    /\ Len(prev.task.transcript) = MaxLines
    /\ tasks[1].fetches = <<>>

\* The batch of the current channel has been launched and all of it has ended.
BatchEnded ==
    /\ run_pc \in {"gather", "loop", "aborted"}
    /\ tasks # <<>>
    /\ \A i \in DOMAIN tasks : Ended(tasks[i])

\* The one fetch of invocation t raised an unexpected error.
FetchThrew(t) == t.fetches = <<"Exception">>

\* Invocation t fetched its transcript and wrote all of it without an error.
FetchedAndWrote(t) ==
    /\ t.fetches # <<>>
    /\ Last(t.fetches) = "ok"
    /\ t.opened
    /\ t.written = Len(t.transcript)

ExactlyOneThrew ==
    \E i \in DOMAIN tasks :
        /\ FetchThrew(tasks[i])
        /\ \A j \in DOMAIN tasks : j # i => FetchedAndWrote(tasks[j])

\* C3: partial-batch resilience: when exactly one video's fetch throws an
\* unexpected error and every other invocation of the batch fetches and
\* writes without error, then once the batch has ended every other video's
\* file is there with that video's transcript, and the join has not raised.
C3_PartialBatchResilience ==
    (BatchEnded /\ ExactlyOneThrew) =>
        /\ run_pc # "aborted"
        /\ \A j \in DOMAIN tasks :
              ~FetchThrew(tasks[j]) =>
                  /\ Exists(fs, TaskPath(tasks[j]))
                  /\ fs[TaskPath(tasks[j])] = Written(tasks[j].transcript)

DistinctPaths ==
    \A i, j \in DOMAIN tasks : i # j => TaskPath(tasks[i]) # TaskPath(tasks[j])

\* C3 holds of the batches in which no two videos share a target path.
C3_ResilienceOnDistinctPaths ==
    (BatchEnded /\ ExactlyOneThrew /\ DistinctPaths) =>
        /\ run_pc # "aborted"
        /\ \A j \in DOMAIN tasks :
              ~FetchThrew(tasks[j]) =>
                  /\ Exists(fs, TaskPath(tasks[j]))
                  /\ fs[TaskPath(tasks[j])] = Written(tasks[j].transcript)

\* C4: within one channel's batch, two different video descriptors have
\* different target paths, so no two invocations hold the same file open.
C4_DistinctPathsPerBatch ==
    \A i, j \in DOMAIN tasks :
        (i # j /\ tasks[i].video_info # tasks[j].video_info) =>
            /\ TaskPath(tasks[i]) # TaskPath(tasks[j])
            /\ ~(/\ tasks[i].pc = "write" /\ tasks[j].pc = "write"
                 /\ TaskPath(tasks[i]) = TaskPath(tasks[j]))

\* C5: channels are processed strictly in sequence: while get_video_info
\* runs for a channel, no parse_video invocation of an earlier channel is
\* still running.
C5_ChannelsSequential ==
    run_pc = "enumerating" => \A i \in DOMAIN tasks : Ended(tasks[i])

\* C5 witness: the enumeration of the second channel is under way, after the
\* first channel's batch wrote a file.
C5_Witness ==
    /\ run_pc = "enumerating"
    /\ ci = 2
    /\ enum_pc = "page"
    /\ Cardinality(DOMAIN fs) > Cardinality(DOMAIN InitialFs)

\* C6: a channel name with no match is dropped and is not fatal: no
\* enumeration is made for the absent identifier, and run does not end on it.
C6_AbsentChannelDropped ==
    /\ channel_id = None => enum_pc = "idle"
    /\ run_pc = "aborted" => channel_id # None \/ k <= Len(yt_channels)

\* C7: single fallback retry: after NoTranscriptFound on the first fetch
\* exactly one more fetch is made; when that one fails the invocation
\* returns without having opened the file; no invocation makes more than two
\* fetch calls; TranscriptsDisabled or another error on the first fetch is
\* not retried.
C7_SingleRetry ==
    \A i \in DOMAIN tasks :
        LET t == tasks[i]
            n == Len(t.fetches)
        IN  /\ n <= 2
            /\ n = 2 => t.fetches[1] = "NoTranscriptFound"
            /\ (n >= 1 /\ t.fetches[1] = "NoTranscriptFound") =>
                  (IF n = 1 THEN t.pc = "fetch2" ELSE t.pc # "fetch2")
            /\ (n = 2 /\ t.fetches[2] # "ok") => (t.pc = "returned" /\ ~t.opened)
            /\ (n >= 1 /\ t.fetches[1] \in {"TranscriptsDisabled", "Exception"}) =>
                  (n = 1 /\ t.pc = "returned" /\ ~t.opened)

\* C7 witness: NoTranscriptFound twice: two fetches, no file opened, returned;
\* and another invocation whose second fetch succeeded went on to write.
C7_Witness ==
    /\ \E i \in DOMAIN tasks :
          /\ tasks[i].fetches = <<"NoTranscriptFound", "NoTranscriptFound">>
          /\ tasks[i].pc = "returned"
    /\ \E i \in DOMAIN tasks :
          /\ tasks[i].fetches = <<"NoTranscriptFound", "ok">>
          /\ tasks[i].opened

\* No other invocation of the batch has the target path of invocation i.
OwnsPath(i) ==
    \A j \in DOMAIN tasks : j # i => TaskPath(tasks[j]) # TaskPath(tasks[i])

\* C8: disabled transcripts yield no file: an invocation whose fetch raised
\* TranscriptsDisabled (its target file was not there when it looked) has
\* returned, without a second fetch, without an exception and without
\* opening the file; where no other invocation shares the path, no file is there.
C8_DisabledNoFile ==
    \A i \in DOMAIN tasks :
        LET t == tasks[i]
        IN  (t.fetches # <<>> /\ t.fetches[1] = "TranscriptsDisabled") =>
                /\ t.pc = "returned"
                /\ t.fetches = <<"TranscriptsDisabled">>
                /\ ~t.opened
                /\ OwnsPath(i) => ~Exists(fs, TaskPath(t))

\* C8 witness: an invocation that owns its path returned after TranscriptsDisabled.
C8_Witness ==
    \E i \in DOMAIN tasks :
        /\ tasks[i].fetches = <<"TranscriptsDisabled">>
        /\ tasks[i].pc = "returned"
        /\ OwnsPath(i)
        /\ ~Exists(fs, TaskPath(tasks[i]))

AllItems == Flatten(uploads["c1"])

\* C9: pagination completeness: when the playlist holds fewer than
\* max_results items, get_video_info returns one descriptor per item of
\* every page, in the order received, after one request per page; the first
\* request carries no token and every later one the token the page before
\* came with.
C9_PaginationComplete ==
    /\ (enum_pc = "returned" /\ Len(AllItems) < max_results) =>
          /\ video_info = Descriptors(AllItems)
          /\ Len(requests) = Len(uploads["c1"])
    /\ \A r \in 1..Len(requests) :
          requests[r] = IF r = 1 THEN NoToken
                        ELSE PlaylistResponse("c1", requests[r - 1]).nextPageToken

\* C9 witness: three pages of two items with tokens, then a last page
\* without a token: the six descriptors are returned after four requests.
C9_Witness ==
    /\ enum_pc = "returned"
    /\ Len(AllItems) < max_results
    /\ Len(uploads["c1"]) = 4
    /\ \A p \in 1..3 : Len(uploads["c1"][p]) = 2
    /\ Len(video_info) = 6
    /\ Len(requests) = 4

C11_ExistingFileUntouched ==
    /\ \A p \in DOMAIN InitialFs : Exists(fs, p) /\ fs[p] = InitialFs[p]
    /\ \A i \in DOMAIN tasks :
          TaskPath(tasks[i]) \in DOMAIN InitialFs =>
              /\ tasks[i].pc \in {"check", "returned"}
              /\ tasks[i].fetches = <<>>
              /\ ~tasks[i].opened

\* C11, step by step: the step of an invocation that finds a file at its path,
\* whenever the file came to be there, changes no file and ends the
\* invocation with no fetch made.
C11_SkipStepChangesNothing ==
    [][\A i \in DOMAIN tasks :
          (/\ i \in DOMAIN tasks'
           /\ tasks[i].pc = "check"
           /\ Exists(fs, TaskPath(tasks[i]))
           /\ tasks'[i] # tasks[i]) =>
              (tasks'[i] = [tasks[i] EXCEPT !.pc = "returned"] /\ fs' = fs)]_vars

\* C11 witness: the invocation for the video whose file an earlier run left
\* has returned without a fetch, while the invocations beside it have
\* written their own file; the old file holds what it held.
C11_Witness ==
    /\ \E i \in DOMAIN tasks :
          /\ TaskPath(tasks[i]) \in DOMAIN InitialFs
          /\ tasks[i].pc = "returned"
          /\ tasks[i].fetches = <<>>
          /\ fs[TaskPath(tasks[i])] = OldContent
    /\ \E j \in DOMAIN tasks : tasks[j].opened /\ tasks[j].pc = "returned"

\* " ".join(texts): the texts in order, one space between neighbours.
RECURSIVE SpaceJoined(_)
SpaceJoined(lines) ==
    IF lines = <<>> THEN <<>>
    ELSE IF Len(lines) = 1 THEN lines[1]
    ELSE Head(lines) \o <<" ">> \o SpaceJoined(Tail(lines))

\* C12: on a successful fetch, the file written by parse_video holds the
\* texts of the transcript's lines, in order, separated by single spaces,
\* and nothing else: an invocation that fetched its transcript and wrote
\* every line has left exactly the space-joined texts at its path.
C12_FileIsSpaceJoined ==
    \A i \in DOMAIN tasks :
        (tasks[i].pc = "returned" /\ FetchedAndWrote(tasks[i])) =>
            /\ Exists(fs, TaskPath(tasks[i]))
            /\ fs[TaskPath(tasks[i])] = SpaceJoined(tasks[i].transcript)

\* What the code does where C12 fails for the format alone: an invocation
\* that owns its path leaves each text followed by a space, the last one too.
C12_FileIsEachTextAndSpace ==
    \A i \in DOMAIN tasks :
        (tasks[i].pc = "returned" /\ FetchedAndWrote(tasks[i]) /\ OwnsPath(i)) =>
            /\ Exists(fs, TaskPath(tasks[i]))
            /\ fs[TaskPath(tasks[i])] = Written(tasks[i].transcript)

\* C13: with the key and the channel list given, run runs to completion and
\* exits normally after all supplied channels were processed, whatever the
\* external calls return (a result or an error): run never ends with an
\* exception, and when it has returned every item of the dict was processed.
C13_RunExitsNormally ==
    /\ run_pc # "aborted"
    /\ run_pc = "done" => ci = Len(yt_id_name) + 1

\* C14: whatever the title, slashes and spaces included, the file name
\* parse_video derives holds no '/' and no space, the target path is that
\* name directly inside the channel directory, every file the invocation
\* leaves is at that path, and the title "A/B Test" gives the segment
\* A_B_Test.
FileName(t) == VideoTitle(t.video_info) \o <<".","t","x","t">>

Chars(s) == {s[n] : n \in 1..Len(s)}

C14_SanitizedFlatFile ==
    \A i \in DOMAIN tasks :
        /\ "/" \notin Chars(FileName(tasks[i]))
        /\ " " \notin Chars(FileName(tasks[i]))
        /\ TaskPath(tasks[i]) = tasks[i].dir_path \o <<"/">> \o FileName(tasks[i])
        /\ \A p \in DOMAIN fs : p = TaskPath(tasks[i])
        /\ tasks[i].video_info.title = TitleABTest =>
              FileName(tasks[i]) = <<"2","0","2","3","-","0","4","-","0","5","_","A","_","B","_","T","e","s","t",".","t","x","t">>

\* A title with a slash and a space whose transcript was written to its file.
C14_Witness ==
    \E i \in DOMAIN tasks :
        /\ "/" \in Chars(tasks[i].video_info.title)
        /\ " " \in Chars(tasks[i].video_info.title)
        /\ tasks[i].pc = "returned"
        /\ tasks[i].opened
        /\ tasks[i].transcript # <<>>
        /\ Exists(fs, TaskPath(tasks[i]))
        /\ fs[TaskPath(tasks[i])] = Written(tasks[i].transcript)

\* C15: a failed lookup or page request inside get_video_info makes the
\* whole call fail: run ends on that error with no parse_video task launched
\* for the channel, and a batch that is launched is always the batch of the
\* complete enumeration of the channel's uploads, one task per descriptor.
C15_FailedEnumerationLaunchesNothing ==
    /\ enum_pc = "raised" => (run_pc = "aborted" /\ tasks = <<>>)
    /\ run_pc = "gather" =>
          /\ video_info = Descriptors(Flatten(uploads[channel_id]))
          /\ Len(tasks) = Len(video_info)
          /\ \A i \in DOMAIN tasks : tasks[i].video_info = video_info[i]

\* A page request failed after an earlier page had put descriptors on the list.
C15_Witness ==
    /\ enum_pc = "raised"
    /\ Len(requests) >= 2
    /\ video_info # <<>>
    /\ run_pc = "aborted"
    /\ tasks = <<>>

\* C16 as stated: when every supplied name resolves, the n-th processing
\* step is the one of the n-th supplied name, and once run has returned every
\* supplied name has its own directory data/<name>, also when two names
\* resolve to the same identifier.
C16_EachNameInOrderOwnDirectory ==
    (\A n \in 1..Len(yt_channels) : GetChannelId(yt_channels[n]) # None) =>
        /\ run_pc \in {"enumerating", "gather"} =>
              /\ yt_id_name[ci].name = yt_channels[ci]
              /\ channel_id = GetChannelId(yt_channels[ci])
        /\ run_pc = "done" =>
              \A n \in 1..Len(yt_channels) : ChannelDir(yt_channels[n]) \in dirs

\* The positions of the supplied names whose identifier no earlier name
\* resolved to, in input order, and for an identifier the last supplied name
\* that resolves to it.
FirstAppearances ==
    SelectSeq([n \in 1..Len(yt_channels) |-> n],
              LAMBDA n : \A m \in 1..(n - 1) :
                            GetChannelId(yt_channels[m]) # GetChannelId(yt_channels[n]))

LastNameOf(id) ==
    LET n == CHOOSE n \in 1..Len(yt_channels) :
                 /\ GetChannelId(yt_channels[n]) = id
                 /\ \A m \in (n + 1)..Len(yt_channels) : GetChannelId(yt_channels[m]) # id
    IN  yt_channels[n]

\* C16, amended: run processes each distinct identifier once, in the order
\* of the identifiers' first appearance among the supplied names, under the
\* directory data/<last supplied name resolving to that identifier>: the
\* mapping built holds exactly these items in that order, the step under way
\* is the one of item ci, and its batch runs in that item's directory.
C16_EachIdentifierOnceLastName ==
    /\ k > Len(yt_channels) =>
          /\ Len(yt_id_name) = Len(FirstAppearances)
          /\ \A j \in 1..Len(yt_id_name) :
                /\ yt_id_name[j].id = GetChannelId(yt_channels[FirstAppearances[j]])
                /\ yt_id_name[j].name = LastNameOf(yt_id_name[j].id)
    /\ run_pc \in {"enumerating", "gather"} =>
          /\ ci \in 1..Len(yt_id_name)
          /\ channel_id = yt_id_name[ci].id
    /\ run_pc = "gather" =>
          /\ ChannelDir(yt_id_name[ci].name) \in dirs
          /\ \A i \in DOMAIN tasks : tasks[i].dir_path = ChannelDir(yt_id_name[ci].name)
    /\ run_pc = "done" => ci = Len(yt_id_name) + 1

\* Two different names resolving to one identifier were supplied and run has
\* returned: one item was processed, under the second name's directory, and
\* the first name has no directory.
C16_Witness ==
    /\ run_pc = "done"
    /\ Len(yt_channels) = 2
    /\ yt_channels[1] # yt_channels[2]
    /\ Len(yt_id_name) = 1
    /\ yt_id_name[1].name = yt_channels[2]
    /\ ChannelDir(yt_channels[2]) \in dirs
    /\ ChannelDir(yt_channels[1]) \notin dirs
    /\ \E p \in DOMAIN fs : p \notin DOMAIN InitialFs

\* C17: a file parse_video leaves at the target path holds the whole
\* transcript: when a second invocation skips the video because of the file
\* the first invocation opened, every line was written and the file holds
\* each line's text followed by a space; no failure leaves an empty or
\* partial file there.
C17_NoPartialFileLeft ==
    (/\ round = 2
     /\ prev.task.opened
     /\ tasks[1].pc = "returned"
     /\ tasks[1].fetches = <<>>) =>
        /\ prev.task.written = Len(prev.task.transcript)
        /\ Exists(fs, TwicePath)
        /\ fs[TwicePath] = Written(prev.task.transcript)

====
